---- MODULE Spec2Model ----
(***************************************************************************)
(* A model of scraper/src/strategies/abstract_strategy.py, the extraction  *)
(* engine of docs-scraper (class AbstractStrategy).                        *)
(*                                                                         *)
(* Python values are modelled as follows.                                  *)
(*   str    a sequence of one-character strings ("ab" is <<"a","b">>);     *)
(*          where a value may also be None it is wrapped: PyStr(s)         *)
(*   None   PyNone                                                         *)
(*   dict   a function whose DOMAIN is the set of keys; a missing key      *)
(*          is a KeyError                                                  *)
(*   list   a sequence                                                     *)
(*   a call its outcome: Ret(v) for a returned value, Raise(e) for an      *)
(*          exception e that leaves the call                               *)
(***************************************************************************)
EXTENDS Integers, Sequences, FiniteSets, TLC

VARIABLES
    keep_tags,   \* the class attribute AbstractStrategy.keep_tags (line 20)
    strategies,  \* the constructed AbstractStrategy objects, oldest first;
                 \* strategies[i] is the object's self.config (line 19)
    args,        \* the arguments of the call under study
    call         \* the call made: what was called and its outcome

vars == <<keep_tags, strategies, args, call>>

\* No call has been made yet
NoCall == [op |-> "none"]

----------------------------------------------------------------------------
(* Python values *)

PyNone == [t |-> "None"]

PyStr(s) == [t |-> "str", s |-> s]

PyInt(n) == [t |-> "int", n |-> n]

PyBytes(b) == [t |-> "bytes", b |-> b]

\* A list where the value may also be None
PyList(items) == [t |-> "list", items |-> items]

Ret(v) == [k |-> "return", v |-> v]

Raise(e) == [k |-> "raise", exc |-> e]

\* The class attribute before any construction: the class body (lines 12-16)
\* binds config only, so reading AbstractStrategy.keep_tags is an AttributeError.
Unbound == [t |-> "unbound"]

----------------------------------------------------------------------------
(* str operations *)

\* `p in s` for two str
IsSubstr(p, s) ==
    \E i \in 0..(Len(s) - Len(p)) : SubSeq(s, i + 1, i + Len(p)) = p

\* s.startswith(p)
StartsWith(s, p) == Len(p) <= Len(s) /\ SubSeq(s, 1, Len(p)) = p

\* The characters str.strip() removes that the model's alphabet holds
\* (the comment of line 134 lists space, tab, newline, return and formfeed).
Whitespace == {" ", "\t", "\n", "\r", "\f"}

\* s.strip(chars) for a set of characters
StripSet(s, chars) ==
    LET keep == {i \in 1..Len(s) : s[i] \notin chars}
    IN  IF keep = {} THEN <<>>
        ELSE LET lo == CHOOSE i \in keep : \A j \in keep : i <= j
                 hi == CHOOSE i \in keep : \A j \in keep : j <= i
             IN  SubSeq(s, lo, hi)

\* s.strip()
Strip(s) == StripSet(s, Whitespace)

\* s.strip(chars), chars a str
StripChars(s, chars) == StripSet(s, {chars[i] : i \in 1..Len(chars)})

\* s.replace(old, new) for a non-empty old: the non-overlapping occurrences,
\* left to right; each step replaces the leftmost occurrence that is left
RECURSIVE Replace(_, _, _)
Replace(s, old, new) ==
    LET found == {i \in 1..(Len(s) - Len(old) + 1) :
                     SubSeq(s, i, i + Len(old) - 1) = old}
    IN  IF found = {} THEN s
        ELSE LET i == CHOOSE x \in found : \A y \in found : x <= y
             IN  SubSeq(s, 1, i - 1) \o new
                     \o Replace(SubSeq(s, i + Len(old), Len(s)), old, new)

\* The concatenation of a sequence of sequences (halving keeps the
\* evaluation shallow)
RECURSIVE Flatten(_)
Flatten(ss) ==
    IF ss = <<>> THEN <<>>
    ELSE IF Len(ss) = 1 THEN ss[1]
    ELSE Flatten(SubSeq(ss, 1, Len(ss) \div 2))
            \o Flatten(SubSeq(ss, Len(ss) \div 2 + 1, Len(ss)))

\* sep.join(parts)
Join(sep, parts) ==
    Flatten([i \in 1..(2 * Len(parts) - 1) |->
                IF i % 2 = 1 THEN parts[(i + 1) \div 2] ELSE sep])

\* The sequences over S of length at most n
SeqsUpTo(S, n) == UNION {[1..m -> S] : m \in 0..n}

\* The string literals of the source
S_class == <<"c", "l", "a", "s", "s">>
S_content == <<"c", "o", "n", "t", "e", "n", "t">>
S_img == <<"i", "m", "g">>
S_meta == <<"m", "e", "t", "a">>
S_lvl == <<"l", "v", "l">>

----------------------------------------------------------------------------
(* Configuration Resolver: lines 46-76 *)

\* re.search(start_url['compiled_url'], url) is not None (line 56), for the
\* compiled patterns of the model: literal patterns, which re.search finds
\* anywhere in the url.
re_search(compiled_url, url) == IsSubstr(compiled_url, url)

\* The loop of lines 55-58 without its break: the last matching rule wins
first_match_keeps_last(start_urls, url, selectors_key) ==
    LET hits == {i \in 1..Len(start_urls) :
                    re_search(start_urls[i].compiled_url, url)}
    IN  IF hits = {} THEN selectors_key
        ELSE start_urls[CHOOSE i \in hits : \A j \in hits : j <= i].selectors_key

\* The loop of lines 55-58 over the rules that are left
RECURSIVE first_match(_, _, _)
first_match(start_urls, url, selectors_key) ==
    IF start_urls = <<>> THEN selectors_key
    ELSE IF re_search(start_urls[1].compiled_url, url)
         THEN start_urls[1].selectors_key              \* line 57, break
         ELSE first_match(Tail(start_urls), url, selectors_key)

get_selectors_set_key(config, url) ==
    IF url # PyNone
    THEN first_match(config.start_urls, url.s, "default")
    ELSE "default"

get_selectors_set(config, url) ==
    LET selectors_key == get_selectors_set_key(config, url)
    IN  IF selectors_key \notin DOMAIN config.selectors
        THEN config.selectors["default"]
        ELSE config.selectors[selectors_key]

get_min_indexed_level_for_url(config, url) ==
    LET selectors_key == get_selectors_set_key(config, url)
    IN  IF selectors_key \notin DOMAIN config.min_indexed_level
        THEN config.min_indexed_level["default"]
        ELSE config.min_indexed_level[selectors_key]

\* selectors[level]['strip_chars'] of lines 47 and 49: each subscript is a
\* KeyError when the key is missing, and nothing catches it.
get_strip_chars(config, level, selectors) ==
    IF level \notin DOMAIN selectors THEN Raise("KeyError")
    ELSE IF "strip_chars" \notin DOMAIN selectors[level] THEN Raise("KeyError")
    ELSE IF selectors[level]["strip_chars"] = PyNone
         THEN Ret(config.strip_chars)
         ELSE Ret(selectors[level]["strip_chars"])

----------------------------------------------------------------------------
(* The resolver's inputs *)

MaxRules == 2
MaxUrlLen == 2

UrlAlphabet == {"a", "b"}

PatternChoices == {<<"a">>, <<"b">>, <<"a", "b">>}

\* "blog" names no selector set of any configuration below
RuleKeys == {"api", "blog"}

StartUrlChoices ==
    SeqsUpTo([compiled_url : PatternChoices, selectors_key : RuleKeys], MaxRules)

Urls == {PyNone} \cup {PyStr(u) : u \in SeqsUpTo(UrlAlphabet, MaxUrlLen)}

LevelNames == {"lvl0", "content"}

DefaultSet ==
    [lvl0 |-> [selector |-> "h1", strip_chars |-> PyNone],
     content |-> [selector |-> "p", strip_chars |-> PyStr(<<".">>)]]

\* A custom set may define every level, leave a level out, or leave a
\* level's strip_chars out.
CustomSets ==
    { [lvl0 |-> [selector |-> "h2", strip_chars |-> PyStr(<<"#">>)],
       content |-> [selector |-> "li", strip_chars |-> PyNone]],
      [content |-> [selector |-> "li", strip_chars |-> PyNone]],
      [lvl0 |-> [selector |-> "h2"],
       content |-> [selector |-> "li", strip_chars |-> PyNone]] }

SelectorsChoices ==
    {[default |-> DefaultSet]}
        \cup {[default |-> DefaultSet, api |-> c] : c \in CustomSets}

ResolverConfigs ==
    { [start_urls |-> r, selectors |-> s, strip_chars |-> PyStr(<<" ", ",">>),
       keep_tags |-> PyList(<<>>), min_indexed_level |-> [default |-> 0, api |-> 1]]
      : r \in StartUrlChoices, s \in SelectorsChoices }

InitResolver ==
    /\ \E config \in ResolverConfigs :
          /\ strategies = <<config>>
          /\ keep_tags = config.keep_tags
    /\ args \in [url : Urls, level : LevelNames]
    /\ call = NoCall

GetSelectorsSetKey ==
    /\ call = NoCall
    /\ call' = [op |-> "get_selectors_set_key",
                ret |-> get_selectors_set_key(strategies[1], args.url)]
    /\ UNCHANGED <<keep_tags, strategies, args>>

GetSelectorsSet ==
    /\ call = NoCall
    /\ call' = [op |-> "get_selectors_set",
                ret |-> get_selectors_set(strategies[1], args.url)]
    /\ UNCHANGED <<keep_tags, strategies, args>>

GetMinIndexedLevelForUrl ==
    /\ call = NoCall
    /\ call' = [op |-> "get_min_indexed_level_for_url",
                ret |-> get_min_indexed_level_for_url(strategies[1], args.url)]
    /\ UNCHANGED <<keep_tags, strategies, args>>

\* get_strip_chars(level, self.get_selectors_set(url)): the level's settings
\* read from the selector set the url resolves to
GetStripChars ==
    /\ call = NoCall
    /\ call' = [op |-> "get_strip_chars",
                ret |-> get_strip_chars(strategies[1], args.level,
                                        get_selectors_set(strategies[1], args.url))]
    /\ UNCHANGED <<keep_tags, strategies, args>>

NextResolver ==
    \/ GetSelectorsSetKey
    \/ GetSelectorsSet
    \/ GetMinIndexedLevelForUrl
    \/ GetStripChars

SpecResolver == InitResolver /\ [][NextResolver]_vars

\* The rules of the engine's configuration that match the url of the last call
Hits ==
    IF args.url = PyNone THEN {}
    ELSE {i \in 1..Len(strategies[1].start_urls) :
             re_search(strategies[1].start_urls[i].compiled_url, args.url.s)}

\* The key the claim C1 describes: the first matching rule's, else "default"
FirstHitKey ==
    IF Hits = {} THEN "default"
    ELSE strategies[1].start_urls[CHOOSE i \in Hits : \A j \in Hits : i <= j].selectors_key

\* C1: get_selectors_set_key returns the selectors key of the first rule, in
\* declared order, whose pattern matches the url, and "default" when the url
\* is None or no rule matches; get_selectors_set returns the set stored under
\* that key, or the "default" set when the key names no configured set.
C1_FirstMatchWins ==
    /\ call.op = "get_selectors_set_key" =>
          /\ call.ret = FirstHitKey
          /\ \A i \in Hits : (\A j \in Hits : i <= j) =>
                call.ret = strategies[1].start_urls[i].selectors_key
          /\ (args.url = PyNone \/ Hits = {}) => call.ret = "default"
    /\ call.op = "get_selectors_set" =>
          call.ret = IF FirstHitKey \in DOMAIN strategies[1].selectors
                     THEN strategies[1].selectors[FirstHitKey]
                     ELSE strategies[1].selectors["default"]

\* Two rules with different keys match the url, and the earlier one's set
\* was returned.
C1_Witness ==
    /\ call.op = "get_selectors_set"
    /\ Cardinality(Hits) = 2
    /\ strategies[1].start_urls[1].selectors_key = "api"
    /\ strategies[1].start_urls[2].selectors_key = "blog"
    /\ "api" \in DOMAIN strategies[1].selectors
    /\ call.ret = strategies[1].selectors["api"]
    /\ call.ret # strategies[1].selectors["default"]

\* C7 as claimed: reading the strip characters of a level the "default" set
\* defines, from the selector set the url resolves to, always yields a value.
C7_StripCharsNeverRaises ==
    (call.op = "get_strip_chars"
        /\ args.level \in DOMAIN strategies[1].selectors["default"])
    => call.ret.k = "return"

----------------------------------------------------------------------------
(* Exceptions: the classes the source names and those its calls raise *)

\* The base class of each exception class (Python's hierarchy; lxml's
\* ParserError is an LxmlSyntaxError)
ExcBase ==
    [UnicodeDecodeError |-> "UnicodeError", UnicodeError |-> "ValueError",
     ValueError |-> "Exception", LookupError |-> "Exception",
     KeyError |-> "LookupError", IndexError |-> "LookupError",
     TypeError |-> "Exception", AttributeError |-> "Exception",
     ParserError |-> "LxmlSyntaxError", LxmlSyntaxError |-> "Exception",
     Exception |-> "Exception"]

\* isinstance(exc, cls): what an except clause naming cls tests
RECURSIVE IsInstance(_, _)
IsInstance(exc, cls) ==
    \/ exc = cls
    \/ exc # "Exception" /\ IsInstance(ExcBase[exc], cls)

\* except (classes): whether the clause catches exc
Catches(classes, exc) == \E cls \in classes : IsInstance(exc, cls)

----------------------------------------------------------------------------
(* Level Weigher: lines 246-258 *)

Digits == <<"0", "1", "2", "3", "4", "5", "6", "7", "8", "9">>

IsDigit(c) == \E d \in 1..Len(Digits) : Digits[d] = c

DigitValue(c) == (CHOOSE d \in 1..Len(Digits) : Digits[d] = c) - 1

\* The longest prefix of s made of digits: what the greedy group ([0-9]*)
\* of line 255 captures
RECURSIVE DigitPrefix(_)
DigitPrefix(s) ==
    IF s # <<>> /\ IsDigit(s[1]) THEN <<s[1]>> \o DigitPrefix(Tail(s)) ELSE <<>>

\* int(s) for a str of decimal digits; int('') is a ValueError
RECURSIVE DecimalValue(_)
DecimalValue(s) ==
    IF s = <<>> THEN 0
    ELSE 10 * DecimalValue(SubSeq(s, 1, Len(s) - 1)) + DigitValue(s[Len(s)])

int(s) == IF s = <<>> THEN Raise("ValueError") ELSE Ret(DecimalValue(s))

\* re.match anchors the pattern at the start of level only, so whatever
\* follows the digits is ignored, and the group may be empty.
get_level_weight(level) ==
    IF StartsWith(level, S_lvl)
    THEN LET n == int(DigitPrefix(SubSeq(level, 4, Len(level))))
         IN  IF n.k = "raise" THEN n ELSE Ret(100 - n.v * 10)
    ELSE Ret(0)

MaxLevelLen == 5

LevelAlphabet == {"l", "v", "0", "3", "x"}

LevelInputs == SeqsUpTo(LevelAlphabet, MaxLevelLen) \cup {S_content}

InitWeigher ==
    /\ strategies = <<>>
    /\ keep_tags = Unbound
    /\ args \in [level : LevelInputs]
    /\ call = NoCall

GetLevelWeight ==
    /\ call = NoCall
    /\ call' = [op |-> "get_level_weight", ret |-> get_level_weight(args.level)]
    /\ UNCHANGED <<keep_tags, strategies, args>>

NextWeigher == GetLevelWeight

SpecWeigher == InitWeigher /\ [][NextWeigher]_vars

\* The level name is "lvl" followed by one digit or more, and nothing else
IsLvlN(level) ==
    /\ StartsWith(level, S_lvl)
    /\ Len(level) > 3
    /\ \A i \in 4..Len(level) : IsDigit(level[i])

\* C8 as claimed: get_level_weight returns 100 - 10*N for "lvl" followed by
\* the digits N, and 0 for every other name; it never fails.
C8_WeightOfEveryName ==
    call.op = "get_level_weight" =>
        /\ call.ret.k = "return"
        /\ call.ret.v = IF IsLvlN(args.level)
                        THEN 100 - 10 * DecimalValue(SubSeq(args.level, 4, Len(args.level)))
                        ELSE 0

----------------------------------------------------------------------------
(* Document Loader: lines 28-44 *)

\* The codecs the model knows; any other name is unknown to Python
Codecs == {"ascii", "utf-8"}

\* Whether the bytes b are well-formed in the codec: ascii takes the bytes
\* below 128; utf-8 takes those and, of the bytes of the model, a lead byte
\* 192..223 (two-byte sequence) followed by a continuation byte 128..191
RECURSIVE WellFormed(_, _)
WellFormed(codec, b) ==
    IF b = <<>> THEN TRUE
    ELSE IF b[1] < 128 THEN WellFormed(codec, Tail(b))
    ELSE /\ codec = "utf-8"
         /\ b[1] \in 194..223
         /\ Len(b) >= 2
         /\ b[2] \in 128..191
         /\ WellFormed(codec, SubSeq(b, 3, Len(b)))

\* The code points of well-formed bytes
RECURSIVE CodePoints(_)
CodePoints(b) ==
    IF b = <<>> THEN <<>>
    ELSE IF b[1] < 128 THEN <<b[1]>> \o CodePoints(Tail(b))
    ELSE <<(b[1] - 192) * 64 + (b[2] - 128)>> \o CodePoints(SubSeq(b, 3, Len(b)))

\* response.body.decode(response.encoding): reading an attribute the
\* response lacks is an AttributeError, an encoding that is not a str a
\* TypeError, an unknown codec name a LookupError, ill-formed bytes a
\* UnicodeDecodeError.
decode(response) ==
    IF "encoding" \notin DOMAIN response THEN Raise("AttributeError")
    ELSE IF response.encoding = PyNone THEN Raise("TypeError")
    ELSE IF response.encoding.s \notin Codecs THEN Raise("LookupError")
    ELSE IF ~WellFormed(response.encoding.s, response.body.b)
         THEN Raise("UnicodeDecodeError")
    ELSE Ret(PyStr(CodePoints(response.body.b)))

get_body(response) ==
    LET body == decode(response)
    IN  IF body.k = "return" THEN body
        ELSE IF Catches({"UnicodeError", "ValueError", "AttributeError"}, body.exc)
             THEN Ret(response.body)
             ELSE body

\* lxml.html.fromstring(source), the parser the engine calls: a document
\* with no content is a ParserError, any other source parses to a tree.
fromstring(source) ==
    IF (source.t = "str" /\ source.s = <<>>) \/ (source.t = "bytes" /\ source.b = <<>>)
    THEN Raise("ParserError")
    ELSE Ret([t |-> "dom", parsed |-> source])

get_dom(response) ==
    LET body == decode(response)
        result == IF body.k = "return" THEN fromstring(body.v) ELSE body
    IN  IF result.k = "return" THEN result
        ELSE IF Catches({"UnicodeError", "ValueError", "ParserError"}, result.exc)
             THEN fromstring(response.body)
             ELSE result

MaxBodyLen == 2

\* 'a', and the two bytes of U+00E9 in utf-8
ByteChoices == {97, 195, 169}

\* A codec name is compared as a whole only, so it is kept as one string
EncodingChoices == {PyStr("ascii"), PyStr("utf-8"), PyStr("klingon"), PyNone}

Responses ==
    LET bodies == {PyBytes(b) : b \in SeqsUpTo(ByteChoices, MaxBodyLen)}
    IN  {[body |-> b, encoding |-> e] : b \in bodies, e \in EncodingChoices}
            \cup {[body |-> b] : b \in bodies}

InitLoader ==
    /\ strategies = <<>>
    /\ keep_tags = Unbound
    /\ args \in [response : Responses]
    /\ call = NoCall

GetBody ==
    /\ call = NoCall
    /\ call' = [op |-> "get_body", ret |-> get_body(args.response)]
    /\ UNCHANGED <<keep_tags, strategies, args>>

GetDom ==
    /\ call = NoCall
    /\ call' = [op |-> "get_dom", ret |-> get_dom(args.response)]
    /\ UNCHANGED <<keep_tags, strategies, args>>

NextLoader ==
    \/ GetBody
    \/ GetDom

SpecLoader == InitLoader /\ [][NextLoader]_vars

\* C6 as claimed: when the body cannot be decoded with the declared encoding
\* (ill-formed bytes, unknown encoding name, absent or None encoding),
\* get_body returns the raw bytes untouched and get_dom parses the raw bytes;
\* the decoding failure never reaches the caller.
C6_DecodingFailureIsNoError ==
    (call.op \in {"get_body", "get_dom"} /\ decode(args.response).k = "raise")
    => /\ call.op = "get_body" => call.ret = Ret(args.response.body)
       /\ call.op = "get_dom" => call.ret = fromstring(args.response.body)

----------------------------------------------------------------------------
(* Document tree (lxml): a node is                                         *)
(*   [t |-> "node", tag, attrib, text, tail, children]                     *)
(* tag is PyStr(name) for an element and Callable for a comment or a       *)
(* processing instruction (lxml sets their tag to a function); attrib is   *)
(* the sequence node.attrib.items() of <<name, value>> pairs, names        *)
(* unique; text and tail are str, <<>> standing for both None and '',      *)
(* which the source never tells apart (lines 87, 94, 105).                 *)

Callable == [t |-> "callable"]

\* The node at a position in a tree: the child indexes from the root down
RECURSIVE NodeAt(_, _)
NodeAt(node, path) ==
    IF path = <<>> THEN node ELSE NodeAt(node.children[path[1]], Tail(path))

\* The positions of the nodes of a tree
RECURSIVE Paths(_)
Paths(node) ==
    {<<>>} \cup UNION {{<<i>> \o p : p \in Paths(node.children[i])}
                          : i \in 1..Len(node.children)}

\* lookup of selectors[level][field] (lines 190, 218, 237): a TypeError when
\* selectors is None, a KeyError when a key is missing
LevelField(selectors, level, field) ==
    IF selectors = PyNone THEN Raise("TypeError")
    ELSE IF level \notin DOMAIN selectors THEN Raise("KeyError")
    ELSE IF field \notin DOMAIN selectors[level] THEN Raise("KeyError")
    ELSE Ret(selectors[level][field])

----------------------------------------------------------------------------
(* Extraction Walker: lines 78-106 and 187-244 *)

\* The value of a lookup whose TypeError and KeyError are caught: None then
OrNone(lookup) == IF lookup.k = "raise" THEN PyNone ELSE lookup.v

get_classnames_to_skip(level, selectors) ==
    OrNone(LevelField(selectors, level, "classname_exclude"))

\* The first, if any, of the positions in a set
First(positions) == CHOOSE i \in positions : \A j \in positions : i <= j

\* The value of the first item of items (node.attrib.items()) that is named
\* name, as Ret; Raise(exc) when there is none
ItemNamed(items, name, exc) ==
    IF \E i \in 1..Len(items) : items[i][1] = name
    THEN Ret(items[First({i \in 1..Len(items) : items[i][1] = name})][2])
    ELSE Raise(exc)

\* The first 'class' item of node.attrib, '' when there is none (IndexError)
get_node_classname(node) ==
    IF ItemNamed(node.attrib, S_class, "IndexError").k = "raise" THEN <<>>
    ELSE ItemNamed(node.attrib, S_class, "IndexError").v

\* Line 211 with == for `in`: the class attribute must equal a listed name
any_classname_equal(classnames_to_skip, node_classname_attr) ==
    IF classnames_to_skip = PyNone THEN FALSE
    ELSE \E i \in 1..Len(classnames_to_skip.items) :
            classnames_to_skip.items[i] = node_classname_attr

\* Lines 206-211
any_classname_in(classnames_to_skip, node_classname_attr) ==
    IF classnames_to_skip = PyNone THEN FALSE
    ELSE \E i \in 1..Len(classnames_to_skip.items) :
            IsSubstr(classnames_to_skip.items[i], node_classname_attr)

\* A filter that compares the class attribute with each name for equality
will_skip_node_exact(node, level, selectors) ==
    any_classname_equal(get_classnames_to_skip(level, selectors),
                        get_node_classname(node))

will_skip_node(node, level, selectors) ==
    any_classname_in(get_classnames_to_skip(level, selectors),
                     get_node_classname(node))

\* The level's meta_tag, a bool in the configurations of the model; False
\* when the lookup fails (TypeError, KeyError caught)
use_meta_content(level, selectors) ==
    IF LevelField(selectors, level, "meta_tag").k = "raise" THEN FALSE
    ELSE LevelField(selectors, level, "meta_tag").v

\* node.attrib['content'] or '': the subscript is a KeyError when the node
\* has no content attribute, and get_meta_content does not catch it
get_meta_content(node) == ItemNamed(node.attrib, S_content, "KeyError")

\* keep_tags[node.tag] for the level's keep_tags: None when keep_tags is
\* None (TypeError) or has no entry for the tag (KeyError)
tag_entry(keep_tags_of_level, tag) ==
    IF keep_tags_of_level = PyNone THEN PyNone
    ELSE IF tag \notin DOMAIN keep_tags_of_level THEN PyNone
    ELSE keep_tags_of_level[tag]

\* Lines 234-239: the level's keep_tags entry for the node's tag
allowed_tags_attrs(node, level, selectors) ==
    tag_entry(OrNone(LevelField(selectors, level, "keep_tags")), node.tag.s)

\* Lines 241-244 without the filter: every attribute of a kept tag
all_attrs(attrib, allowed) ==
    IF allowed = PyNone THEN PyNone ELSE PyList(attrib)

\* Lines 241-244
attrs_in(attrib, allowed) ==
    IF allowed = PyNone THEN PyNone
    ELSE PyList(SelectSeq(attrib,
            LAMBDA value : \E i \in 1..Len(allowed.items) : allowed.items[i] = value[1]))

\* A walker that keeps every attribute of a kept tag
get_allowed_node_attrs_unfiltered(node, level, selectors) ==
    all_attrs(node.attrib, allowed_tags_attrs(node, level, selectors))

get_allowed_node_attrs(node, level, selectors) ==
    attrs_in(node.attrib, allowed_tags_attrs(node, level, selectors))

\* ' '.join([f" {k}='{v}'" for k, v in node_attrs_to_keep]) (line 100)
node_attrs_str(node_attrs_to_keep) ==
    Join(<<" ">>, [i \in 1..Len(node_attrs_to_keep) |->
                      <<" ">> \o node_attrs_to_keep[i][1] \o <<"=", "'">>
                          \o node_attrs_to_keep[i][2] \o <<"'">>])

\* What a generator has produced when it ends: the fragments it yielded, and
\* the exception that ended it ("" when it returned). A fragment is the str
\* yielded, s, with where it comes from: the node's position and whether it
\* is the node's own content or its tail.
Yielded(frags, exc) == [frags |-> frags, exc |-> exc]

Fragment(s, path, part) == [s |-> s, src |-> path, part |-> part]

\* Lines 90-95: the text of the node's own fragment
fragment_text(node, level, selectors) ==
    IF use_meta_content(level, selectors) THEN get_meta_content(node)
    ELSE Ret(node.text)

\* Lines 97-101: what is yielded for the text and the attributes to keep
yield_own(node, path, node_attrs_to_keep, text) ==
    IF text.k = "raise" THEN Yielded(<<>>, text.exc)
    ELSE IF node_attrs_to_keep = PyNone
         THEN Yielded(<<Fragment(text.v, path, "text")>>, "")
         ELSE Yielded(<<Fragment(
                  <<"<">> \o node.tag.s \o node_attrs_str(node_attrs_to_keep.items)
                      \o <<">">> \o text.v \o <<"<", "/">> \o node.tag.s
                      \o <<">">>, path, "text")>>, "")

\* Lines 87-101: the node's own fragment
own_content(node, path, level, selectors) ==
    IF node.text # <<>> \/ node.tag = PyStr(S_img) \/ node.tag = PyStr(S_meta)
    THEN yield_own(node, path, get_allowed_node_attrs(node, level, selectors),
                   fragment_text(node, level, selectors))
    ELSE Yielded(<<>>, "")

\* One generator's fragments followed by another's; an exception ends both
Then(first, rest) ==
    IF first.exc # "" THEN first
    ELSE Yielded(first.frags \o rest.frags, rest.exc)

\* Lines 105-106: the child's tail as a fragment of its own
yield_tail(e, path) ==
    IF e.tail # <<>> THEN Yielded(<<Fragment(e.tail, path, "tail")>>, "")
    ELSE Yielded(<<>>, "")

\* A walker whose loop yields a child's tail before the child's fragments
RECURSIVE itertext_tail_first(_, _, _, _)
RECURSIVE children_tail_first(_, _, _, _, _)
itertext_tail_first(node, path, level, selectors) ==
    IF node.tag.t # "str" THEN Yielded(<<>>, "")
    ELSE IF will_skip_node(node, level, selectors) THEN Yielded(<<>>, "")
    ELSE Then(own_content(node, path, level, selectors),
              children_tail_first(node, 1, path, level, selectors))

children_tail_first(node, i, path, level, selectors) ==
    IF i > Len(node.children) THEN Yielded(<<>>, "")
    ELSE Then(yield_tail(node.children[i], path \o <<i>>),
              Then(itertext_tail_first(node.children[i], path \o <<i>>, level, selectors),
                   children_tail_first(node, i + 1, path, level, selectors)))

\* itertext(node, level, selectors); path is the node's position in the tree
\* the walk started from.
RECURSIVE itertext(_, _, _, _)
RECURSIVE itertext_children(_, _, _, _, _)
itertext(node, path, level, selectors) ==
    IF node.tag.t # "str" THEN Yielded(<<>>, "")                       \* line 82
    ELSE IF will_skip_node(node, level, selectors) THEN Yielded(<<>>, "")  \* 85
    ELSE Then(own_content(node, path, level, selectors),
              itertext_children(node, 1, path, level, selectors))

\* The for loop of lines 102-106 from the i-th child of node on
itertext_children(node, i, path, level, selectors) ==
    IF i > Len(node.children) THEN Yielded(<<>>, "")
    ELSE Then(itertext(node.children[i], path \o <<i>>, level, selectors),
              Then(yield_tail(node.children[i], path \o <<i>>),
                   itertext_children(node, i + 1, path, level, selectors)))

----------------------------------------------------------------------------
(* Text Assembler and selective unescape: lines 108-167 *)

\* html.escape(s) (quote=True), character by character
html_escape(s) ==
    Flatten([i \in 1..Len(s) |->
        CASE s[i] = "&" -> <<"&", "a", "m", "p", ";">>
          [] s[i] = "<" -> <<"&", "l", "t", ";">>
          [] s[i] = ">" -> <<"&", "g", "t", ";">>
          [] s[i] = "\"" -> <<"&", "q", "u", "o", "t", ";">>
          [] s[i] = "'" -> <<"&", "#", "x", "2", "7", ";">>
          [] OTHER -> <<s[i]>>])

\* Lines 114-117 for one tag
unescape_tag(tag, text) ==
    Replace(Replace(text, html_escape(<<"<">> \o tag \o <<">">>),
                    <<"<">> \o tag \o <<">">>),
            html_escape(<<"<", "/">> \o tag \o <<">">>), <<"<", "/">> \o tag \o <<">">>)

\* The for loop of lines 113-117 over the tags that are left
RECURSIVE unescape_tags(_, _)
unescape_tags(tags, text) ==
    IF tags = <<>> THEN text
    ELSE unescape_tags(Tail(tags), unescape_tag(tags[1], text))

\* escape(text), reading the class attribute, whose value is class_keep_tags
escape(class_keep_tags, text) ==
    IF class_keep_tags = Unbound THEN Raise("AttributeError")
    ELSE Ret(PyStr(Replace(unescape_tags(class_keep_tags.items, text),
                           <<"&", "a", "m", "p", ";">>, <<"&">>)))

\* Lines 130-132: the fragments of a walk, each after a space
concat_fragments(walk) ==
    IF walk.exc # "" THEN Raise(walk.exc)
    ELSE Ret(Flatten([i \in 1..Len(walk.frags) |-> <<" ">> \o walk.frags[i].s]))

\* Lines 126-132: the text of an element, before stripping
element_text(element, level, selectors) ==
    IF element.t = "str" THEN Ret(element.s)
    ELSE concat_fragments(itertext(element, <<>>, level, selectors))

\* Lines 140-143 and 164-167
none_if_empty(class_keep_tags, text) ==
    IF Len(text) = 0 THEN Ret(PyNone) ELSE escape(class_keep_tags, text)

\* Lines 137-138
strip_custom(text, strip_chars) ==
    IF strip_chars # PyNone THEN StripChars(text, strip_chars.s) ELSE text

\* Lines 134-143
strip_and_escape(class_keep_tags, text, strip_chars) ==
    IF text.k = "raise" THEN text
    ELSE none_if_empty(class_keep_tags, strip_custom(Strip(text.v), strip_chars))

get_text(class_keep_tags, element, strip_chars, level, selectors) ==
    strip_and_escape(class_keep_tags, element_text(element, level, selectors),
                     strip_chars)

\* Lines 159-167: the texts that are not None joined; the first exception
\* of a get_text call leaves the comprehension
join_texts(class_keep_tags, texts) ==
    IF \E i \in 1..Len(texts) : texts[i].k = "raise"
    THEN texts[First({i \in 1..Len(texts) : texts[i].k = "raise"})]
    ELSE none_if_empty(class_keep_tags,
            Join(<<" ">>, [i \in 1..Len(SelectSeq(texts, LAMBDA r : r.v # PyNone)) |->
                              SelectSeq(texts, LAMBDA r : r.v # PyNone)[i].v.s]))

get_text_from_nodes(class_keep_tags, elements, strip_chars, level, selectors) ==
    IF elements.t # "list" THEN Ret(elements)
    ELSE IF Len(elements.items) = 0 THEN Ret(PyNone)
    ELSE join_texts(class_keep_tags,
                    [i \in 1..Len(elements.items) |->
                        get_text(class_keep_tags, elements.items[i], strip_chars,
                                 level, selectors)])

----------------------------------------------------------------------------
(* The walker's inputs: trees of at most MaxNodes nodes *)

MaxNodes == 3

S_p == <<"p">>
S_em == <<"e", "m">>
S_id == <<"i", "d">>
S_foo == <<"f", "o", "o">>
S_foobar == <<"f", "o", "o", "-", "b", "a", "r">>

\* <p class="x">A
ChoiceP == [tag |-> PyStr(S_p), attrib |-> <<<<S_class, <<"x">>>>>>, text |-> <<"A">>]

\* <em content="d" id="y" class="foo-bar">B
ChoiceEm ==
    [tag |-> PyStr(S_em),
     attrib |-> <<<<S_content, <<"d">>>>, <<S_id, <<"y">>>>, <<S_class, S_foobar>>>>,
     text |-> <<"B">>]

\* What a node is, apart from its tail and children: a paragraph, an
\* emphasised span, a meta element without text, or a comment
NodeChoices ==
    { ChoiceP, ChoiceEm,
      [tag |-> PyStr(S_meta), attrib |-> <<<<S_content, <<"d">>>>>>, text |-> <<>>],
      [tag |-> Callable, attrib |-> <<>>, text |-> <<"A">>] }

TailChoices == {<<>>, <<"C">>}

Node(choice, tail, children) ==
    [t |-> "node", tag |-> choice.tag, attrib |-> choice.attrib, text |-> choice.text,
     tail |-> tail, children |-> children]

\* The sequences of sibling subtrees of n nodes in all
RECURSIVE Forests(_)
Forests(n) ==
    IF n = 0 THEN {<<>>}
    ELSE UNION {
            {<<Node(c, tail, kids)>> \o rest :
                c \in NodeChoices, tail \in TailChoices,
                kids \in Forests(k - 1), rest \in Forests(n - k)}
            : k \in 1..n}

\* The trees a walk starts from; the walk never reads its root's tail
Trees ==
    UNION {{Node(c, <<>>, kids) : c \in NodeChoices, kids \in Forests(n - 1)}
              : n \in 1..MaxNodes}

\* The selector sets of the walks, each with the one level "lvl0": none at
\* all (the defaults of get_text), a class exclusion, markup preservation,
\* and meta-tag mode with the markup of meta kept
WalkSelectors ==
    { PyNone,
      [lvl0 |-> [selector |-> "h1", classname_exclude |-> PyList(<<S_foo>>)]],
      [lvl0 |-> [selector |-> "h1",
                 keep_tags |-> (S_em :> PyList(<<S_class, S_content>>))]],
      [lvl0 |-> [selector |-> "h1", meta_tag |-> TRUE,
                 keep_tags |-> (S_meta :> PyList(<<>>))]] }

\* The one configuration of the walker's and the assembler's engine
WalkConfig ==
    [start_urls |-> <<>>, selectors |-> [default |-> DefaultSet],
     strip_chars |-> PyNone, keep_tags |-> PyList(<<S_em>>),
     min_indexed_level |-> [default |-> 0]]

InitWalker ==
    /\ strategies = <<WalkConfig>>
    /\ keep_tags = WalkConfig.keep_tags
    /\ args \in [element : Trees, level : {"lvl0"}, selectors : WalkSelectors]
    /\ call = NoCall

Itertext ==
    /\ call = NoCall
    /\ call' = [op |-> "itertext",
                ret |-> itertext(args.element, <<>>, args.level, args.selectors)]
    /\ UNCHANGED <<keep_tags, strategies, args>>

WalkerGetText ==
    /\ call = NoCall
    /\ call' = [op |-> "get_text",
                ret |-> get_text(keep_tags, args.element, PyNone, args.level,
                                 args.selectors)]
    /\ UNCHANGED <<keep_tags, strategies, args>>

NextWalker ==
    \/ Itertext
    \/ WalkerGetText

SpecWalker == InitWalker /\ [][NextWalker]_vars

----------------------------------------------------------------------------
(* Document order, stated on positions *)

IsPrefix(p, q) == Len(p) <= Len(q) /\ SubSeq(q, 1, Len(p)) = p

\* p's subtree lies wholly before q in the document
LiesBefore(p, q) ==
    \E k \in 1..Len(p) :
        /\ k <= Len(q)
        /\ SubSeq(p, 1, k - 1) = SubSeq(q, 1, k - 1)
        /\ p[k] < q[k]

\* Fragment f comes before fragment g in the source markup: a node's own
\* content precedes everything below it, and a node's tail follows
\* everything below it.
Before(f, g) ==
    CASE f.part = "text" /\ g.part = "text" ->
            (IsPrefix(f.src, g.src) /\ f.src # g.src) \/ LiesBefore(f.src, g.src)
      [] f.part = "text" /\ g.part = "tail" ->
            IsPrefix(g.src, f.src) \/ IsPrefix(f.src, g.src) \/ LiesBefore(f.src, g.src)
      [] f.part = "tail" /\ g.part = "text" ->
            LiesBefore(f.src, g.src)
      [] OTHER ->
            (IsPrefix(g.src, f.src) /\ f.src # g.src) \/ LiesBefore(f.src, g.src)

\* The level's classname_exclude names a substring of the node's class
Excluded(node) ==
    /\ args.selectors # PyNone
    /\ "classname_exclude" \in DOMAIN args.selectors[args.level]
    /\ \E a \in 1..Len(node.attrib) :
          /\ node.attrib[a][1] = S_class
          /\ \E c \in 1..Len(args.selectors[args.level].classname_exclude.items) :
                IsSubstr(args.selectors[args.level].classname_exclude.items[c],
                         node.attrib[a][2])

\* The walk enters the node at the position: it and the nodes above it are
\* elements, none of them excluded
Entered(path) ==
    \A n \in 0..Len(path) :
        LET node == NodeAt(args.element, SubSeq(path, 1, n))
        IN  node.tag.t = "str" /\ ~Excluded(node)

\* The fragments a walk of args.element owes: the own content of each node
\* entered that has text or is an img or a meta, and the non-empty tail of
\* each child of a node entered
Owed ==
    {[src |-> p, part |-> "text"] :
        p \in {q \in Paths(args.element) :
                 /\ Entered(q)
                 /\ \/ NodeAt(args.element, q).text # <<>>
                    \/ NodeAt(args.element, q).tag.s \in {S_img, S_meta}}}
    \cup
    {[src |-> p, part |-> "tail"] :
        p \in {q \in Paths(args.element) :
                 /\ q # <<>>
                 /\ Entered(SubSeq(q, 1, Len(q) - 1))
                 /\ NodeAt(args.element, q).tail # <<>>}}

\* <p ...>A<em ...>B</em>C</p>
TreeABC == Node(ChoiceP, <<>>, <<Node(ChoiceEm, <<"C">>, <<>>)>>)

\* C3: itertext yields its fragments in document order: a node's own text
\* first, then for each child in order the child's fragments followed by the
\* child's non-empty tail as a fragment of its own; a walk that ends normally
\* yields each owed fragment once, a tail fragment being the tail text and a
\* fragment of a level with no markup or meta setting the node's text; and
\* get_text assembles <p>A<em>B</em>C</p> as "A B C".
C3_TailTextInterleaving ==
    /\ call.op = "itertext" =>
          /\ \A i, j \in 1..Len(call.ret.frags) :
                i < j => Before(call.ret.frags[i], call.ret.frags[j])
          /\ \A i \in 1..Len(call.ret.frags) :
                /\ call.ret.frags[i].part = "tail" =>
                      call.ret.frags[i].s
                          = NodeAt(args.element, call.ret.frags[i].src).tail
                /\ (call.ret.frags[i].part = "text" /\ args.selectors = PyNone) =>
                      call.ret.frags[i].s
                          = NodeAt(args.element, call.ret.frags[i].src).text
          /\ call.ret.exc = "" =>
                {[src |-> call.ret.frags[i].src, part |-> call.ret.frags[i].part] :
                    i \in 1..Len(call.ret.frags)} = Owed
    /\ (call.op = "get_text" /\ args.element = TreeABC /\ args.selectors = PyNone) =>
          call.ret = Ret(PyStr(<<"A", " ", "B", " ", "C">>))

\* A walk of three nodes, one nested in the other, that yielded a text, a
\* nested text, the nested node's tail and the outer child's tail
C3_Witness ==
    /\ call.op = "itertext"
    /\ args.selectors = PyNone
    /\ Len(call.ret.frags) = 5
    /\ [i \in 1..Len(call.ret.frags) |-> call.ret.frags[i].s]
          = <<<<"A">>, <<"B">>, <<"A">>, <<"C">>, <<"C">>>>
    /\ [i \in 1..Len(call.ret.frags) |-> call.ret.frags[i].part]
          = <<"text", "text", "text", "tail", "tail">>
    /\ call.ret.frags[3].src = <<1, 1>>

\* C4: no fragment comes from a node whose class attribute contains a name of
\* the level's classname_exclude as a substring, nor from any node below it:
\* neither own content nor the tail of a node below it.
C4_ExclusionIsTransitive ==
    call.op = "itertext" =>
        \A i \in 1..Len(call.ret.frags) :
            LET f == call.ret.frags[i]
                deep == IF f.part = "text" THEN Len(f.src) ELSE Len(f.src) - 1
            IN  \A n \in 0..deep : ~Excluded(NodeAt(args.element, SubSeq(f.src, 1, n)))

\* An excluded node ("foo" in "foo-bar") with a child that carries text, a
\* tail and no excluded class: the walk yielded the root's text and the
\* excluded node's tail only.
C4_Witness ==
    /\ call.op = "itertext"
    /\ Len(args.element.children) = 1
    /\ Excluded(args.element.children[1])
    /\ Len(args.element.children[1].children) = 1
    /\ ~Excluded(args.element.children[1].children[1])
    /\ args.element.children[1].children[1].text # <<>>
    /\ args.element.children[1].children[1].tail # <<>>
    /\ [i \in 1..Len(call.ret.frags) |-> call.ret.frags[i].src] = <<<<>>, <<1>>>>
    /\ call.ret.frags[2].part = "tail"

\* The level is in meta-tag mode
MetaTagMode ==
    /\ args.selectors # PyNone
    /\ "meta_tag" \in DOMAIN args.selectors[args.level]
    /\ args.selectors[args.level].meta_tag

\* The value of the node's content attribute, '' when it has none
ContentOrEmpty(node) ==
    LET hits == {a \in 1..Len(node.attrib) : node.attrib[a][1] = S_content}
    IN  IF hits = {} THEN <<>> ELSE node.attrib[CHOOSE a \in hits : TRUE][2]

\* The level's keep_tags entry for the node's tag, when it has one
HasKeepEntry(node) ==
    /\ node.tag.t = "str"
    /\ args.selectors # PyNone
    /\ "keep_tags" \in DOMAIN args.selectors[args.level]
    /\ node.tag.s \in DOMAIN args.selectors[args.level].keep_tags

KeepEntry(node) == args.selectors[args.level].keep_tags[node.tag.s].items

\* C5 as claimed: in meta-tag mode a walk never fails, and the text of each
\* node's own fragment is its content attribute, '' when it has none.
C5_MetaContentNeverFails ==
    (call.op = "itertext" /\ MetaTagMode) =>
        /\ call.ret.exc = ""
        /\ \A i \in 1..Len(call.ret.frags) :
              LET f == call.ret.frags[i]
                  node == NodeAt(args.element, f.src)
              IN  (f.part = "text" /\ ~HasKeepEntry(node)) => f.s = ContentOrEmpty(node)

\* The names of the attributes an opening tag carries: of each ='...' the
\* name before it
RECURSIVE AttrNamesIn(_)
AttrNamesIn(s) ==
    LET eqs == {i \in 1..Len(s) : s[i] = "="}
    IN  IF eqs = {} THEN <<>>
        ELSE LET e == CHOOSE i \in eqs : \A j \in eqs : i <= j
                 start == CHOOSE i \in 1..e :
                             /\ \A k \in i..(e - 1) : s[k] # " "
                             /\ i = 1 \/ s[i - 1] = " "
                 quotes == {i \in (e + 2)..Len(s) : s[i] = "'"}
                 close == CHOOSE i \in quotes : \A j \in quotes : i <= j
             IN  <<SubSeq(s, start, e - 1)>> \o AttrNamesIn(SubSeq(s, close + 1, Len(s)))

\* The opening tag of a fragment: up to its first ">"
OpeningTag(s) ==
    LET ends == {i \in 1..Len(s) : s[i] = ">"}
    IN  SubSeq(s, 1, CHOOSE i \in ends : \A j \in ends : i <= j)

\* C9: when the level's keep_tags has an entry for the node's tag, the node's
\* fragment is an opening tag that carries exactly the node's attributes named
\* in the entry, in the node's attribute order, then the node's text and the
\* closing tag; when it has no entry, the fragment is the text alone.
C9_MarkupPreservation ==
    call.op = "itertext" =>
        \A i \in 1..Len(call.ret.frags) :
            LET f == call.ret.frags[i]
                node == NodeAt(args.element, f.src)
                text == IF MetaTagMode THEN ContentOrEmpty(node) ELSE node.text
                names == [a \in 1..Len(node.attrib) |-> node.attrib[a][1]]
                closing == <<">">> \o text \o <<"<", "/">> \o node.tag.s \o <<">">>
            IN  f.part = "text" =>
                   IF HasKeepEntry(node)
                   THEN /\ StartsWith(f.s, <<"<">> \o node.tag.s)
                        /\ AttrNamesIn(OpeningTag(f.s))
                             = SelectSeq(names, LAMBDA n :
                                   \E k \in 1..Len(KeepEntry(node)) : KeepEntry(node)[k] = n)
                        /\ \A a \in 1..Len(node.attrib) :
                              IsSubstr(<<" ">> \o node.attrib[a][1] \o <<"=", "'">>
                                          \o node.attrib[a][2] \o <<"'">>, f.s)
                              <=> \E k \in 1..Len(KeepEntry(node)) :
                                     KeepEntry(node)[k] = node.attrib[a][1]
                        /\ Len(f.s) >= Len(closing)
                        /\ SubSeq(f.s, Len(f.s) - Len(closing) + 1, Len(f.s)) = closing
                   ELSE f.s = text

\* An em with the attributes content, id, class, in that order, under an
\* entry that lists class, content: the fragment keeps content then class
\* and drops id; its child, a p, has no entry and yields its text alone.
C9_Witness ==
    /\ call.op = "itertext"
    /\ HasKeepEntry(args.element)
    /\ KeepEntry(args.element) = <<S_class, S_content>>
    /\ [a \in 1..Len(args.element.attrib) |-> args.element.attrib[a][1]]
          = <<S_content, S_id, S_class>>
    /\ Len(call.ret.frags) = 2
    /\ call.ret.frags[1].s
          = <<"<", "e", "m", " ", "c", "o", "n", "t", "e", "n", "t", "=", "'", "d", "'",
              " ", " ", "c", "l", "a", "s", "s", "=", "'">> \o S_foobar
              \o <<"'", ">", "B", "<", "/", "e", "m", ">">>
    /\ call.ret.frags[2].s = <<"A">>

----------------------------------------------------------------------------
(* The assembler's inputs *)

MaxStrLen == 3
MaxElements == 2

TextAlphabet == {" ", "#", "A"}

\* What a selector may evaluate to: a str (an xpath text()) or a node
Elements == {PyStr(x) : x \in SeqsUpTo(TextAlphabet, MaxStrLen)} \cup Trees

\* The members of the lists handed to get_text_from_nodes
ListElements ==
    { PyStr(<<"A">>), PyStr(<<" ">>), PyStr(<<"#">>), TreeABC,
      Node([tag |-> PyStr(S_meta), attrib |-> <<>>, text |-> <<>>], <<>>, <<>>) }

\* A list of elements, or what an xpath count() returns
ElementLists == {PyList(l) : l \in SeqsUpTo(ListElements, MaxElements)} \cup {PyInt(2)}

StripCharsChoices == {PyNone, PyStr(<<"#", "A">>)}

AssemblerSelectors ==
    {PyNone, [lvl0 |-> [selector |-> "h1", meta_tag |-> TRUE]]}

InitAssembler ==
    /\ strategies = <<WalkConfig>>
    /\ keep_tags = WalkConfig.keep_tags
    /\ args \in [element : Elements, strip_chars : StripCharsChoices,
                 level : {"lvl0"}, selectors : AssemblerSelectors]
            \cup [elements : ElementLists, strip_chars : StripCharsChoices,
                  level : {"lvl0"}, selectors : AssemblerSelectors]
    /\ call = NoCall

GetText ==
    /\ call = NoCall
    /\ "element" \in DOMAIN args
    /\ call' = [op |-> "get_text",
                ret |-> get_text(keep_tags, args.element, args.strip_chars,
                                 args.level, args.selectors)]
    /\ UNCHANGED <<keep_tags, strategies, args>>

GetTextFromNodes ==
    /\ call = NoCall
    /\ "elements" \in DOMAIN args
    /\ call' = [op |-> "get_text_from_nodes",
                ret |-> get_text_from_nodes(keep_tags, args.elements, args.strip_chars,
                                            args.level, args.selectors)]
    /\ UNCHANGED <<keep_tags, strategies, args>>

NextAssembler ==
    \/ GetText
    \/ GetTextFromNodes

SpecAssembler == InitAssembler /\ [][NextAssembler]_vars

\* C2 as claimed: get_text, and get_text_from_nodes of a list, return None or
\* a str that is neither empty nor all whitespace, whatever the strip
\* characters.
C2_NoneOrNonBlank ==
    (\/ call.op = "get_text"
     \/ call.op = "get_text_from_nodes" /\ args.elements.t = "list")
    => /\ call.ret.k = "return"
       /\ \/ call.ret.v = PyNone
          \/ /\ call.ret.v.t = "str"
             /\ \E i \in 1..Len(call.ret.v.s) : call.ret.v.s[i] \notin Whitespace

----------------------------------------------------------------------------
(* The class attribute under several engines: lines 16-20 *)

\* A constructor that binds the class attribute once, on the first engine
init_keep_tags_once(class_keep_tags, config) ==
    IF class_keep_tags = Unbound THEN config.keep_tags ELSE class_keep_tags

\* __init__ (line 20): the value AbstractStrategy.keep_tags has after the
\* construction of an engine with config
init_keep_tags(class_keep_tags, config) == config.keep_tags

MaxStrategies == 2

S_b == <<"b">>

\* "&lt;" \o tag \o "&gt;"
Escaped(tag) == <<"&", "l", "t", ";">> \o tag \o <<"&", "g", "t", ";">>

SharedConfigs ==
    { [start_urls |-> <<>>, selectors |-> [default |-> DefaultSet],
       strip_chars |-> PyNone, keep_tags |-> PyList(k),
       min_indexed_level |-> [default |-> 0]]
      : k \in {<<>>, <<S_em>>, <<S_b>>, <<S_em, S_b>>} }

\* Texts with the escaped opening tags of em and b, as a str and in a node
SharedElements ==
    { PyStr(Escaped(S_em) \o <<"A">>),
      PyStr(Escaped(S_b) \o <<"&", "a", "m", "p", ";">>),
      Node([tag |-> PyStr(S_p), attrib |-> <<>>,
            text |-> Escaped(S_em) \o Escaped(S_b)], <<>>, <<>>) }

InitShared ==
    /\ strategies = <<>>
    /\ keep_tags = Unbound
    /\ args = [config |-> PyNone]
    /\ call = NoCall

\* AbstractStrategy(config)
Construct ==
    /\ Len(strategies) < MaxStrategies
    /\ \E config \in SharedConfigs :
          /\ strategies' = Append(strategies, config)
          /\ keep_tags' = init_keep_tags(keep_tags, config)
          /\ args' = [config |-> config]
          /\ call' = [op |-> "__init__", ret |-> Ret(PyNone)]

\* strategy.get_text(element) on the self-th engine; built is the number of
\* engines constructed when the call is made
SharedGetText ==
    \E self \in 1..Len(strategies), element \in SharedElements :
        /\ args' = [self |-> self, element |-> element, built |-> Len(strategies)]
        /\ call' = [op |-> "get_text",
                    ret |-> get_text(keep_tags, element, PyNone, "lvl0", PyNone)]
        /\ UNCHANGED <<keep_tags, strategies>>

\* strategy.get_text_from_nodes([element]) on the self-th engine
SharedGetTextFromNodes ==
    \E self \in 1..Len(strategies), element \in SharedElements :
        /\ args' = [self |-> self, element |-> element, built |-> Len(strategies)]
        /\ call' = [op |-> "get_text_from_nodes",
                    ret |-> get_text_from_nodes(keep_tags, PyList(<<element>>), PyNone,
                                                "lvl0", PyNone)]
        /\ UNCHANGED <<keep_tags, strategies>>

NextShared ==
    \/ Construct
    \/ SharedGetText
    \/ SharedGetTextFromNodes

SpecShared == InitShared /\ [][NextShared]_vars

\* What the call would return with the keep_tags of the config of engine e
WithKeepTagsOf(e) ==
    IF call.op = "get_text"
    THEN get_text(strategies[e].keep_tags, args.element, PyNone, "lvl0", PyNone)
    ELSE get_text_from_nodes(strategies[e].keep_tags, PyList(<<args.element>>), PyNone,
                             "lvl0", PyNone)

\* C10: under every interleaving of constructions and calls, a get_text or
\* get_text_from_nodes call unescapes with the keep_tags of the engine
\* constructed last before the call, whichever engine the call is made on,
\* and the class attribute is that engine's list.
C10_KeepTagsOfLatestEngine ==
    /\ strategies # <<>> => keep_tags = strategies[Len(strategies)].keep_tags
    /\ call.op \in {"get_text", "get_text_from_nodes"} =>
          call.ret = WithKeepTagsOf(args.built)

\* A call on the first engine, made after a second engine with another
\* keep_tags was constructed, returned what the second engine's list gives
\* and not what its own gives.
C10_Witness ==
    /\ call.op = "get_text"
    /\ args.self = 1
    /\ args.built = 2
    /\ strategies[1].keep_tags # strategies[2].keep_tags
    /\ call.ret = WithKeepTagsOf(2)
    /\ call.ret # WithKeepTagsOf(1)

====
